---- MODULE Spec2Model ----
(***************************************************************************)
(* A model of scraping.py: the date-range enumerator, the listing          *)
(* extractor, the article fetcher, the text normaliser and the driver      *)
(* loop with its terminal export stage.                                    *)
(*                                                                         *)
(* Text is modelled as a sequence of characters.  An ASCII character is    *)
(* the one-character string holding it; a non-ASCII code point is a named  *)
(* token ("e_acute" is U+00E9, "combining_acute" is U+0301, "nbsp" is      *)
(* U+00A0).                                                                *)
(***************************************************************************)
EXTENDS Integers, Sequences, FiniteSets, TLC

VARIABLES
    \* text normaliser
    text, cleaned, recleaned, clean_pc,
    \* date range enumerator
    start_date, end_date, urls, dates_pc,
    \* listing extractor
    l_response, l_result, l_pc,
    \* article fetcher
    heap, f_arg, f_response, f_ret, f_writes, f_pc,
    \* driver
    site, pc, date_urls, i, cocoa_articles, j, all_cocoa_articles,
    csv, saved, reported_nothing, prev_op, last_op, listing_log

cleanVars == <<text, cleaned, recleaned, clean_pc>>
dateVars == <<start_date, end_date, urls, dates_pc>>
listingVars == <<l_response, l_result, l_pc>>
fetchVars == <<heap, f_arg, f_response, f_ret, f_writes, f_pc>>
driverVars == <<site, pc, date_urls, i, cocoa_articles, j, all_cocoa_articles,
                csv, saved, reported_nothing, prev_op, last_op, listing_log>>
vars == <<text, cleaned, recleaned, clean_pc,
          start_date, end_date, urls, dates_pc,
          l_response, l_result, l_pc,
          heap, f_arg, f_response, f_ret, f_writes, f_pc,
          site, pc, date_urls, i, cocoa_articles, j, all_cocoa_articles,
          csv, saved, reported_nothing, prev_op, last_op, listing_log>>

(***************************************************************************)
(* Character classes, as Python's re and str see them.                     *)
(***************************************************************************)
LowerLetters ==
    {"a","b","c","d","e","f","g","h","i","j","k","l","m",
     "n","o","p","q","r","s","t","u","v","w","x","y","z"}

UpperLetters ==
    {"A","B","C","D","E","F","G","H","I","J","K","L","M",
     "N","O","P","Q","R","S","T","U","V","W","X","Y","Z"}

Digits == {"0","1","2","3","4","5","6","7","8","9"}

\* \s of a str pattern, and what str.strip() strips
Whitespace == {" ", "\t", "\n", "nbsp"}

AsciiAlnum == LowerLetters \cup UpperLetters \cup Digits

UpperSeq ==
    <<"A","B","C","D","E","F","G","H","I","J","K","L","M",
      "N","O","P","Q","R","S","T","U","V","W","X","Y","Z">>

LowerSeq ==
    <<"a","b","c","d","e","f","g","h","i","j","k","l","m",
      "n","o","p","q","r","s","t","u","v","w","x","y","z">>

\* str.lower() on one character
LowerChar(c) ==
    IF c \in UpperLetters
    THEN LowerSeq[CHOOSE k \in 1..26 : UpperSeq[k] = c]
    ELSE c

\* str.lower()
Lower(s) == [k \in 1..Len(s) |-> LowerChar(s[k])]

\* str.startswith(prefix)
StartsWith(s, prefix) ==
    /\ Len(s) >= Len(prefix)
    /\ SubSeq(s, 1, Len(prefix)) = prefix

\* the suffix of s from position k on (s[k-1:] in Python)
From(s, k) == SubSeq(s, k, Len(s))

\* prefix occurs somewhere in s (re.search of a literal pattern)
Contains(s, pattern) ==
    \E k \in 1..(Len(s) + 1) : StartsWith(From(s, k), pattern)

\* the length of the longest prefix of s whose characters are all in class
RECURSIVE RunLength(_, _)
RunLength(s, class) ==
    IF s = <<>> \/ Head(s) \notin class
    THEN 0
    ELSE 1 + RunLength(Tail(s), class)

\* the length of the longest prefix of s holding no character of class
RECURSIVE RunLengthNot(_, _)
RunLengthNot(s, class) ==
    IF s = <<>> \/ Head(s) \in class
    THEN 0
    ELSE 1 + RunLengthNot(Tail(s), class)

\* str.strip()
RECURSIVE LStrip(_)
LStrip(s) ==
    IF s # <<>> /\ Head(s) \in Whitespace THEN LStrip(Tail(s)) ELSE s

RECURSIVE RStrip(_)
RStrip(s) ==
    IF s # <<>> /\ s[Len(s)] \in Whitespace
    THEN RStrip(SubSeq(s, 1, Len(s) - 1))
    ELSE s

Strip(s) == RStrip(LStrip(s))

(***************************************************************************)
(* clean_text, step by step.                                               *)
(***************************************************************************)

\* unicodedata.normalize('NFKD', c) for one code point
Decompose(c) ==
    CASE c = "e_acute" -> <<"e", "combining_acute">>
      [] c = "nbsp"    -> <<" ">>
      [] OTHER         -> <<c>>

\* unicodedata.normalize('NFKD', text)
RECURSIVE NormalizeNFKD(_)
NormalizeNFKD(s) ==
    IF s = <<>> THEN <<>>
    ELSE Decompose(Head(s)) \o NormalizeNFKD(Tail(s))

\* the length of the match of &[a-zA-Z]+; at the start of s, 0 if none
EntityMatch(s) ==
    IF s # <<>> /\ Head(s) = "&"
    THEN LET k == RunLength(Tail(s), LowerLetters \cup UpperLetters)
         IN  IF k >= 1 /\ Len(s) >= k + 2 /\ s[k + 2] = ";"
             THEN k + 2
             ELSE 0
    ELSE 0

\* re.sub(r'&[a-zA-Z]+;', ' ', text)
RECURSIVE RemoveEntities(_)
RemoveEntities(s) ==
    IF s = <<>> THEN <<>>
    ELSE LET n == EntityMatch(s)
         IN  IF n > 0
             THEN <<" ">> \o RemoveEntities(From(s, n + 1))
             ELSE <<Head(s)>> \o RemoveEntities(Tail(s))

HttpPrefix == <<"h","t","t","p">>
WwwPrefix == <<"w","w","w",".">>

\* the marker an alternative of the URL pattern starts with matches here
UrlPrefixAt(s) ==
    StartsWith(s, HttpPrefix) \/ StartsWith(s, WwwPrefix)

\* the length of the match of http\S+|www\.\S+ at the start of s, 0 if none
UrlMatch(s) ==
    IF UrlPrefixAt(s)
    THEN LET k == RunLengthNot(From(s, 5), Whitespace)
         IN  IF k >= 1 THEN 4 + k ELSE 0
    ELSE 0

\* re.sub(r'http\S+|www\.\S+', '', text)
RECURSIVE RemoveUrls(_)
RemoveUrls(s) ==
    IF s = <<>> THEN <<>>
    ELSE LET n == UrlMatch(s)
         IN  IF n > 0
             THEN RemoveUrls(From(s, n + 1))
             ELSE <<Head(s)>> \o RemoveUrls(Tail(s))

\* re.sub(r'[^a-zA-Z0-9\s]', ' ', text)
RemoveSpecial(s) ==
    [k \in 1..Len(s) |->
        IF s[k] \in AsciiAlnum \cup Whitespace THEN s[k] ELSE " "]

\* re.sub(r'\s+', ' ', text)
RECURSIVE CollapseWhitespace(_)
CollapseWhitespace(s) ==
    IF s = <<>> THEN <<>>
    ELSE LET n == RunLength(s, Whitespace)
         IN  IF n > 0
             THEN <<" ">> \o CollapseWhitespace(From(s, n + 1))
             ELSE <<Head(s)>> \o CollapseWhitespace(Tail(s))

\* clean_text without its text.lower() step
CleanTextNoLower(s) ==
    Strip(CollapseWhitespace(RemoveSpecial(
        RemoveUrls(RemoveEntities(NormalizeNFKD(s))))))

\* clean_text(text) for a str argument
clean_text(s) ==
    Strip(Lower(CollapseWhitespace(RemoveSpecial(
        RemoveUrls(RemoveEntities(NormalizeNFKD(s)))))))

(***************************************************************************)
(* The normaliser applied to bounded inputs.                               *)
(***************************************************************************)
MaxTextLen == 5

TextAlphabet == {"h", "t", "p", "H", "&", ";", " ", "\t", "e_acute"}

\* the sequences over S of length at most n
SeqsUpTo(S, n) == UNION {[1..m -> S] : m \in 0..n}

\* longer texts of the kind the scraper meets
SampleTexts ==
    { <<"S","e","e"," ","w","w","w",".","a",".","b"," ","N","o","w">>,
      <<"w","w","w","."," ","x">>,
      <<"C","o","c","o","a"," ","&","a","m","p",";"," ","T","e","a","!">>,
      <<"U","p"," ","5","%","\n","h","t","t","p","s",":","/","/","x",".","y","/","z">>,
      <<"H","T","T","P","S",":","/","/","X",".","Y"," ","o","k">>,
      <<"c","a","f","e_acute","nbsp","2","0","2","4">> }

CleanInputs == SeqsUpTo(TextAlphabet, MaxTextLen) \cup SampleTexts

CleanInit ==
    /\ text \in CleanInputs
    /\ cleaned = <<>>
    /\ recleaned = <<>>
    /\ clean_pc = "input"

CleanIdle ==
    /\ text = <<>>
    /\ cleaned = <<>>
    /\ recleaned = <<>>
    /\ clean_pc = "off"

\* cleaned = clean_text(text)
Clean ==
    /\ clean_pc = "input"
    /\ cleaned' = clean_text(text)
    /\ clean_pc' = "cleaned"
    /\ UNCHANGED <<text, recleaned>>

\* recleaned = clean_text(cleaned)
CleanAgain ==
    /\ clean_pc = "cleaned"
    /\ recleaned' = clean_text(cleaned)
    /\ clean_pc' = "recleaned"
    /\ UNCHANGED <<text, cleaned>>

(***************************************************************************)
(* generate_date_urls.  A date is a datetime at midnight, [y, m, d].       *)
(***************************************************************************)
IsLeap(y) == (y % 4 = 0) /\ ((y % 100 # 0) \/ (y % 400 = 0))

DaysInMonth(y, m) ==
    IF m = 2 THEN (IF IsLeap(y) THEN 29 ELSE 28)
    ELSE IF m \in {4, 6, 9, 11} THEN 30
    ELSE 31

\* current_date + timedelta(days=1)
NextDay(date) ==
    IF date.d < DaysInMonth(date.y, date.m)
    THEN [y |-> date.y, m |-> date.m, d |-> date.d + 1]
    ELSE IF date.m < 12
    THEN [y |-> date.y, m |-> date.m + 1, d |-> 1]
    ELSE [y |-> date.y + 1, m |-> 1, d |-> 1]

\* datetime comparison a <= b
DateLE(a, b) ==
    \/ a.y < b.y
    \/ a.y = b.y /\ a.m < b.m
    \/ a.y = b.y /\ a.m = b.m /\ a.d <= b.d

\* datetime comparison a < b
DateLT(a, b) == DateLE(a, b) /\ a # b

DigitSeq == <<"0","1","2","3","4","5","6","7","8","9">>

DigitChar(n) == DigitSeq[n + 1]

\* current_date.strftime("%Y%m%d"), for a four-digit year
strftime(date) ==
    << DigitChar(date.y \div 1000), DigitChar((date.y \div 100) % 10),
       DigitChar((date.y \div 10) % 10), DigitChar(date.y % 10),
       DigitChar(date.m \div 10), DigitChar(date.m % 10),
       DigitChar(date.d \div 10), DigitChar(date.d % 10) >>

\* "https://www.ghanaweb.com"
SiteOrigin ==
    <<"h","t","t","p","s",":","/","/","w","w","w",".",
      "g","h","a","n","a","w","e","b",".","c","o","m">>

\* "/GhanaHomePage/business/browse.archive.php?date="
ArchivePath ==
    <<"/","G","h","a","n","a","H","o","m","e","P","a","g","e","/",
      "b","u","s","i","n","e","s","s","/",
      "b","r","o","w","s","e",".","a","r","c","h","i","v","e",".","p","h","p",
      "?","d","a","t","e","=">>

\* the f-string of the listing URL
ListingUrl(date_str) == SiteOrigin \o ArchivePath \o date_str

\* the loop test written with < for <=
LoopContinuesStrict(current_date, end) == DateLT(current_date, end)

\* the loop test of generate_date_urls
LoopContinues(current_date, end) == DateLE(current_date, end)

\* the while loop of generate_date_urls, from current_date on
RECURSIVE DateLoop(_, _)
DateLoop(current_date, end) ==
    IF LoopContinues(current_date, end)
    THEN LET date_str == strftime(current_date)
         IN  << <<date_str, ListingUrl(date_str)>> >>
                 \o DateLoop(NextDay(current_date), end)
    ELSE <<>>

generate_date_urls(start, end) == DateLoop(start, end)

(***************************************************************************)
(* The enumerator applied to bounded ranges.                               *)
(***************************************************************************)
MaxSpan == 3

\* a century non-leap year, a 400-year leap year, a common year, a leap year
TestYears == {1900, 2000, 2023, 2024}

DateUniverse ==
    {date \in [y : TestYears, m : 1..12, d : 1..31] :
        date.d <= DaysInMonth(date.y, date.m)}

\* datetime.toordinal(): the day number of a date, day 1 being 0001-01-01
DaysBeforeYear(y) ==
    (y - 1) * 365 + ((y - 1) \div 4) - ((y - 1) \div 100) + ((y - 1) \div 400)

CumulativeDays == <<0, 31, 59, 90, 120, 151, 181, 212, 243, 273, 304, 334>>

DaysBeforeMonth(y, m) ==
    CumulativeDays[m] + (IF m > 2 /\ IsLeap(y) THEN 1 ELSE 0)

ToOrdinal(date) == DaysBeforeYear(date.y) + DaysBeforeMonth(date.y, date.m) + date.d

\* (b - a).days
DaysBetween(a, b) == ToOrdinal(b) - ToOrdinal(a)

DatesInit ==
    /\ start_date \in DateUniverse
    /\ end_date \in {e \in DateUniverse :
                        /\ e.y \in {start_date.y, start_date.y + 1}
                        /\ e.m \in {start_date.m, (start_date.m % 12) + 1}
                        /\ DaysBetween(start_date, e) >= 0
                        /\ DaysBetween(start_date, e) <= MaxSpan}
    /\ urls = <<>>
    /\ dates_pc = "input"

DatesIdle ==
    /\ start_date = [y |-> 2015, m |-> 1, d |-> 1]
    /\ end_date = [y |-> 2015, m |-> 1, d |-> 1]
    /\ urls = <<>>
    /\ dates_pc = "off"

\* urls = generate_date_urls(start_date, end_date)
Generate ==
    /\ dates_pc = "input"
    /\ urls' = generate_date_urls(start_date, end_date)
    /\ dates_pc' = "returned"
    /\ UNCHANGED <<start_date, end_date>>

(***************************************************************************)
(* get_articles_from_listing_page.  A response is [ok, page]: ok is FALSE  *)
(* when requests.get or raise_for_status raises.  A page says which        *)
(* elements of the container chain it holds and lists its <li> items; an   *)
(* item describes its first anchor.                                        *)
(***************************************************************************)

\* the pattern r'cocoa'
Keyword == <<"c","o","c","o","a">>

\* the search without re.IGNORECASE
TitleMatchesCaseSensitive(title) == Contains(title, Keyword)

\* re.search(r'cocoa', title, re.IGNORECASE)
TitleMatches(title) == Contains(Lower(title), Keyword)

\* href if href.startswith('http') else f"https://www.ghanaweb.com{href}"
AbsoluteUrl(href) ==
    IF StartsWith(href, HttpPrefix) THEN href ELSE SiteOrigin \o href

\* link and link.has_attr('href') and link.has_attr('title')
LinkUsable(item) == item.has_link /\ item.has_href /\ item.has_title

\* the for loop over article_list.find_all('li')
RECURSIVE ItemLoop(_, _)
ItemLoop(items, date_str) ==
    IF items = <<>> THEN <<>>
    ELSE LET item == Head(items)
             rest == ItemLoop(Tail(items), date_str)
         IN  IF LinkUsable(item) /\ TitleMatches(item.title)
             THEN << [date |-> date_str, title |-> item.title,
                      url |-> AbsoluteUrl(item.href)] >> \o rest
             ELSE rest

\* the three nested if statements
ListFound(page) == page.has_container /\ page.has_upper /\ page.has_list

\* the body of the try block, after the request succeeded
ParseListing(page, date_str) ==
    IF ListFound(page) THEN ItemLoop(page.items, date_str) ELSE <<>>

\* the function without its except clause: a failed request propagates
ListingWithoutExcept(response, date_str) ==
    IF response.ok
    THEN [raised |-> FALSE, articles |-> ParseListing(response.page, date_str)]
    ELSE [raised |-> TRUE, articles |-> <<>>]

\* the whole function: [raised, articles]
get_articles_from_listing_page(response, date_str) ==
    IF response.ok
    THEN [raised |-> FALSE, articles |-> ParseListing(response.page, date_str)]
    ELSE [raised |-> FALSE, articles |-> <<>>]

(***************************************************************************)
(* The listing extractor applied to bounded pages.                         *)
(***************************************************************************)
MaxItems == 2

TitleCocoaUp == <<"C","o","c","o","a"," ","U","p">>
TitleUpperCocoa == <<"C","O","C","O","A">>
TitleInside == <<"p","r","e","C","o","c","o","a","s">>
TitleCoffee == <<"C","o","f","f","e","e">>
TitleCoco == <<"C","o","c","o"," ","a">>

HrefRelative == <<"/","a">>
HrefHttps == <<"h","t","t","p","s",":","/","/","g",".","c","o","/","b">>
HrefFtp == <<"f","t","p",":","/","/","g","/","c">>
HrefHttpDir == <<"h","t","t","p","d","/","d">>
HrefOther == <<"/","e">>

ListingTitles == {TitleCocoaUp, TitleUpperCocoa, TitleInside, TitleCoffee, TitleCoco}
ListingHrefs == {HrefRelative, HrefHttps, HrefFtp, HrefHttpDir}

Anchor(title, href) ==
    [has_link |-> TRUE, has_href |-> TRUE, has_title |-> TRUE,
     title |-> title, href |-> href]

ListingItems ==
    {Anchor(t, h) : t \in {TitleCocoaUp, TitleUpperCocoa, TitleCoffee}, h \in ListingHrefs}
    \cup {Anchor(TitleInside, HrefRelative), Anchor(TitleCoco, HrefRelative)}
    \cup { \* an <li> with no anchor
           [has_link |-> FALSE, has_href |-> FALSE, has_title |-> FALSE,
            title |-> <<>>, href |-> <<>>],
           \* an anchor with a title and no href
           [has_link |-> TRUE, has_href |-> FALSE, has_title |-> TRUE,
            title |-> TitleCocoaUp, href |-> <<>>],
           \* an anchor with an href and no title
           [has_link |-> TRUE, has_href |-> TRUE, has_title |-> FALSE,
            title |-> <<>>, href |-> HrefRelative] }

ListingPages ==
    [has_container : BOOLEAN, has_upper : BOOLEAN, has_list : BOOLEAN,
     items : SeqsUpTo(ListingItems, MaxItems)]

EmptyPage ==
    [has_container |-> FALSE, has_upper |-> FALSE, has_list |-> FALSE,
     items |-> <<>>]

FailedResponse == [ok |-> FALSE, page |-> EmptyPage]

ListingResponses ==
    {[ok |-> TRUE, page |-> p] : p \in ListingPages} \cup {FailedResponse}

ListingDate == <<"2","0","1","5","0","1","0","1">>

ListingInit ==
    /\ l_response \in ListingResponses
    /\ l_result = <<>>
    /\ l_pc = "input"

ListingIdle ==
    /\ l_response = FailedResponse
    /\ l_result = <<>>
    /\ l_pc = "off"

\* articles = get_articles_from_listing_page(url, date_str)
Extract ==
    /\ l_pc = "input"
    /\ LET res == get_articles_from_listing_page(l_response, ListingDate)
       IN  /\ l_result' = res.articles
           /\ l_pc' = IF res.raised THEN "raised" ELSE "returned"
    /\ UNCHANGED l_response

(***************************************************************************)
(* get_article_content.  A response is [ok, error, has_primary, primary,   *)
(* has_area, paragraphs]: ok is FALSE when the request or the parse        *)
(* raises, error being str(e); primary is the text of <p id=article-123>;  *)
(* paragraphs are the texts of the <p> elements of the content area.       *)
(***************************************************************************)

\* "Content not found"
ContentNotFound ==
    <<"C","o","n","t","e","n","t"," ","n","o","t"," ","f","o","u","n","d">>

\* the f-string prefix "Error: "
ErrorPrefix == <<"E","r","r","o","r",":"," ">>

\* element.get_text(strip=True), the element holding one text node
get_text_strip(element_text) == Strip(element_text)

\* ' '.join(texts)
RECURSIVE JoinWithSpace(_)
JoinWithSpace(texts) ==
    IF texts = <<>> THEN <<>>
    ELSE IF Len(texts) = 1 THEN texts[1]
    ELSE texts[1] \o <<" ">> \o JoinWithSpace(Tail(texts))

\* the assignments with the fallback branch's "return article_info" left out:
\* the fallback falls through to the not-found assignment
ContentWritesFallThrough(response) ==
    IF ~response.ok
    THEN << ErrorPrefix \o response.error >>
    ELSE IF response.has_primary
    THEN << get_text_strip(response.primary) >>
    ELSE IF response.has_area /\ response.paragraphs # <<>>
    THEN << JoinWithSpace([k \in 1..Len(response.paragraphs) |->
                              get_text_strip(response.paragraphs[k])]),
            ContentNotFound >>
    ELSE << ContentNotFound >>

\* the values assigned to article_info['content'] on the path the response
\* selects, in the order of the assignments
ContentWrites(response) ==
    IF ~response.ok
    THEN << ErrorPrefix \o response.error >>
    ELSE IF response.has_primary
    THEN << get_text_strip(response.primary) >>
    ELSE IF response.has_area /\ response.paragraphs # <<>>
    THEN << JoinWithSpace([k \in 1..Len(response.paragraphs) |->
                              get_text_strip(response.paragraphs[k])]) >>
    ELSE << ContentNotFound >>

\* article_info after the assignments
WithContent(article_info, writes) ==
    [date |-> article_info.date, title |-> article_info.title,
     url |-> article_info.url, content |-> writes[Len(writes)]]

\* the whole function: [raised, article]
get_article_content(article_info, response) ==
    [raised |-> FALSE,
     article |-> WithContent(article_info, ContentWrites(response))]

(***************************************************************************)
(* The fetcher applied to bounded responses.  heap maps an object identity *)
(* to the dict it names; f_arg is the reference passed, f_ret the one      *)
(* returned (0: none yet).                                                 *)
(***************************************************************************)
MaxParagraphs == 2

TextPadded == <<" ","U","p"," ">>
TextPercent == <<"5","%">>
TextNewline == <<"\n","o","k","\t">>

FetchTexts == {TextPadded, TextPercent, TextNewline, <<>>}

ErrorNotFound == <<"4","0","4">>
ErrorTimeout == <<"t","i","m","e","d"," ","o","u","t">>

FetchResponses ==
    [ok : {TRUE}, error : {<<>>}, has_primary : BOOLEAN, primary : FetchTexts,
     has_area : BOOLEAN, paragraphs : SeqsUpTo(FetchTexts, MaxParagraphs)]
    \cup
    [ok : {FALSE}, error : {ErrorNotFound, ErrorTimeout}, has_primary : {FALSE},
     primary : {<<>>}, has_area : {FALSE}, paragraphs : {<<>>}]

InitialHeap ==
    << [date |-> ListingDate, title |-> TitleCocoaUp,
        url |-> AbsoluteUrl(HrefRelative)],
       [date |-> ListingDate, title |-> TitleUpperCocoa,
        url |-> AbsoluteUrl(HrefHttps)] >>

FetchInit ==
    /\ heap = InitialHeap
    /\ f_arg \in DOMAIN InitialHeap
    /\ f_response \in FetchResponses
    /\ f_ret = 0
    /\ f_writes = <<>>
    /\ f_pc = "input"

FetchIdle ==
    /\ heap = <<>>
    /\ f_arg = 0
    /\ f_response = FailedResponse
    /\ f_ret = 0
    /\ f_writes = <<>>
    /\ f_pc = "off"

\* f_ret = get_article_content(f_arg)
Fetch ==
    /\ f_pc = "input"
    /\ LET res == get_article_content(heap[f_arg], f_response)
       IN  /\ heap' = [heap EXCEPT ![f_arg] = res.article]
           /\ f_ret' = IF res.raised THEN 0 ELSE f_arg
           /\ f_pc' = IF res.raised THEN "raised" ELSE "returned"
    /\ f_writes' = ContentWrites(f_response)
    /\ UNCHANGED <<f_arg, f_response>>

(***************************************************************************)
(* The terminal stage: the DataFrame, clean_dataframe_add_sentiment and    *)
(* the export.  A frame is the sequence of its rows.                       *)
(***************************************************************************)
DigitValue(c) == CHOOSE n \in 0..9 : DigitSeq[n + 1] = c

\* pd.to_datetime(date_str, format="%Y%m%d")
to_datetime(date_str) ==
    [y |-> 1000 * DigitValue(date_str[1]) + 100 * DigitValue(date_str[2])
           + 10 * DigitValue(date_str[3]) + DigitValue(date_str[4]),
     m |-> 10 * DigitValue(date_str[5]) + DigitValue(date_str[6]),
     d |-> 10 * DigitValue(date_str[7]) + DigitValue(date_str[8])]

\* pd.DataFrame(all_cocoa_articles), the date column parsed, the columns reordered
BuildFrame(records) ==
    [k \in 1..Len(records) |->
        [date |-> to_datetime(records[k].date), title |-> records[k].title,
         content |-> records[k].content, url |-> records[k].url]]

\* sia.polarity_scores(str(x))['compound']: the lexicon's score of x, a
\* function of x alone
polarity_compound(x) == [compound_of |-> x]

\* the row filter left out
KeepEveryRow(row) == TRUE

\* the row filter cleaned_df['content'].str.strip() != ''
KeepRow(row) == Strip(row.content) # <<>>

\* clean_dataframe_add_sentiment(df)
clean_dataframe_add_sentiment(df) ==
    LET cleaned_df ==
            [k \in 1..Len(df) |->
                [df[k] EXCEPT !.title = clean_text(@), !.content = clean_text(@)]]
        kept == SelectSeq(cleaned_df, KeepRow)
    IN  [k \in 1..Len(kept) |->
            [date |-> kept[k].date, title |-> kept[k].title,
             content |-> kept[k].content, url |-> kept[k].url,
             sentiment_score |-> polarity_compound(kept[k].content)]]

\* df[['date', 'sentiment_score']].to_csv(...): the data rows of the file
to_csv(df) ==
    [k \in 1..Len(df) |->
        [date |-> df[k].date, sentiment_score |-> df[k].sentiment_score]]

\* the test made on the cleaned contents instead of the accumulator
ExportIfContentLeft(records) ==
    \E k \in 1..Len(records) : clean_text(records[k].content) # <<>>

\* the test "if all_cocoa_articles:"
ExportCondition(records) == records # <<>>

(***************************************************************************)
(* The driver.  pc is the position in the script; site is what the remote  *)
(* site answers to the GET of each article URL; last_op and prev_op are    *)
(* the last two network-or-sleep operations performed; listing_log holds,  *)
(* per listing request made, its date key, whether the request failed and  *)
(* the refs it returned.                                                   *)
(***************************************************************************)
NumDays == 3

RECURSIVE AddDays(_, _)
AddDays(date, n) == IF n = 0 THEN date ELSE AddDays(NextDay(date), n - 1)

\* start_date = datetime(2015, 1, 1)
DriverStart == [y |-> 2015, m |-> 1, d |-> 1]

\* end_date, NumDays days into the range
DriverEnd == AddDays(DriverStart, NumDays - 1)

TextCocoaRose ==
    <<"C","o","c","o","a"," ","r","o","s","e"," ","5","%">>

TextBlank == <<"!","!">>

OkPage(items) ==
    [ok |-> TRUE,
     page |-> [has_container |-> TRUE, has_upper |-> TRUE, has_list |-> TRUE,
               items |-> items]]

\* what a listing request of the run may meet
DriverListingResponses ==
    { FailedResponse,
      [ok |-> TRUE, page |-> EmptyPage],
      OkPage(<< Anchor(TitleCoffee, HrefHttps), Anchor(TitleCocoaUp, HrefRelative) >>),
      OkPage(<< Anchor(TitleUpperCocoa, HrefHttps), Anchor(TitleCoffee, HrefRelative),
                Anchor(TitleInside, HrefOther) >>) }

PageResponse(has_primary, primary) ==
    [ok |-> TRUE, error |-> <<>>, has_primary |-> has_primary, primary |-> primary,
     has_area |-> FALSE, paragraphs |-> <<>>]

ErrorResponse(error) ==
    [ok |-> FALSE, error |-> error, has_primary |-> FALSE, primary |-> <<>>,
     has_area |-> FALSE, paragraphs |-> <<>>]

\* what an article request of the run may meet
DriverArticleResponses ==
    { ErrorResponse(ErrorNotFound),
      PageResponse(TRUE, TextCocoaRose),
      PageResponse(TRUE, TextBlank),
      PageResponse(FALSE, <<>>) }

\* the article URLs the listings of the run link to
DriverArticleUrls ==
    {SiteOrigin \o HrefRelative, HrefHttps, SiteOrigin \o HrefOther}

\* requests.get(url) and what follows it, for an article URL
SiteAnswer(url) ==
    IF url \in DOMAIN site THEN site[url] ELSE ErrorResponse(ErrorNotFound)

Requests == {"listing_get", "article_get"}

DriverInit ==
    /\ site \in [DriverArticleUrls -> DriverArticleResponses]
    /\ date_urls = generate_date_urls(DriverStart, DriverEnd)
    /\ i = 1
    /\ pc = IF date_urls = <<>> THEN "terminal" ELSE "listing"
    /\ cocoa_articles = <<>>
    /\ j = 1
    /\ all_cocoa_articles = <<>>
    /\ csv = <<>>
    /\ saved = FALSE
    /\ reported_nothing = FALSE
    /\ prev_op = "none"
    /\ last_op = "none"
    /\ listing_log = <<>>

DriverIdle ==
    /\ site = <<>>
    /\ date_urls = <<>>
    /\ i = 1
    /\ pc = "off"
    /\ cocoa_articles = <<>>
    /\ j = 1
    /\ all_cocoa_articles = <<>>
    /\ csv = <<>>
    /\ saved = FALSE
    /\ reported_nothing = FALSE
    /\ prev_op = "none"
    /\ last_op = "none"
    /\ listing_log = <<>>

\* an operation joins the record of the last two
Performed(op) ==
    /\ prev_op' = last_op
    /\ last_op' = op

\* where the script goes once the articles of a date are done with
AfterArticles == "date_sleep"

\* cocoa_articles = get_articles_from_listing_page(url, date_str); if cocoa_articles:
FetchListing ==
    /\ pc = "listing"
    /\ \E response \in DriverListingResponses :
          LET date_str == date_urls[i][1]
              res == get_articles_from_listing_page(response, date_str)
          IN  /\ cocoa_articles' = res.articles
              /\ listing_log' = Append(listing_log,
                     [date |-> date_str, failed |-> ~response.ok,
                      articles |-> res.articles])
              /\ pc' = IF res.raised THEN "aborted"
                       ELSE IF res.articles # <<>> THEN "article"
                       ELSE AfterArticles
    /\ j' = 1
    /\ Performed("listing_get")
    /\ UNCHANGED <<site, date_urls, i, all_cocoa_articles, csv, saved, reported_nothing>>

\* article_with_content = get_article_content(article)
\* all_cocoa_articles.append(article_with_content)
FetchArticle ==
    /\ pc = "article"
    /\ LET response == SiteAnswer(cocoa_articles[j].url)
           res == get_article_content(cocoa_articles[j], response)
       IN  /\ all_cocoa_articles' =
                  IF res.raised THEN all_cocoa_articles
                  ELSE Append(all_cocoa_articles, res.article)
           /\ pc' = IF res.raised THEN "aborted" ELSE "article_sleep"
    /\ Performed("article_get")
    /\ UNCHANGED <<site, date_urls, i, cocoa_articles, j, csv, saved, reported_nothing,
                   listing_log>>

\* the for loop's step with time.sleep(1) left out
ArticleNoSleep ==
    /\ pc = "article_sleep"
    /\ j' = j + 1
    /\ pc' = IF j < Len(cocoa_articles) THEN "article" ELSE AfterArticles
    /\ UNCHANGED <<site, date_urls, i, cocoa_articles, all_cocoa_articles, csv, saved,
                   reported_nothing, listing_log, prev_op, last_op>>

\* time.sleep(1), and the for loop's step
ArticleSleep ==
    /\ pc = "article_sleep"
    /\ Performed("sleep")
    /\ j' = j + 1
    /\ pc' = IF j < Len(cocoa_articles) THEN "article" ELSE AfterArticles
    /\ UNCHANGED <<site, date_urls, i, cocoa_articles, all_cocoa_articles, csv, saved,
                   reported_nothing, listing_log>>

\* time.sleep(2), and the outer loop's step
DateSleep ==
    /\ pc = "date_sleep"
    /\ Performed("sleep")
    /\ i' = i + 1
    /\ pc' = IF i < Len(date_urls) THEN "listing" ELSE "terminal"
    /\ UNCHANGED <<site, date_urls, cocoa_articles, j, all_cocoa_articles, csv, saved,
                   reported_nothing, listing_log>>

\* the if branch of the terminal stage
Export ==
    /\ pc = "terminal"
    /\ ExportCondition(all_cocoa_articles)
    /\ csv' = to_csv(clean_dataframe_add_sentiment(BuildFrame(all_cocoa_articles)))
    /\ saved' = TRUE
    /\ pc' = "done"
    /\ UNCHANGED <<site, date_urls, i, cocoa_articles, j, all_cocoa_articles,
                   reported_nothing, prev_op, last_op, listing_log>>

\* the else branch: print("No cocoa-related articles found")
ReportNothing ==
    /\ pc = "terminal"
    /\ ~ExportCondition(all_cocoa_articles)
    /\ reported_nothing' = TRUE
    /\ pc' = "done"
    /\ UNCHANGED <<site, date_urls, i, cocoa_articles, j, all_cocoa_articles, csv, saved,
                   prev_op, last_op, listing_log>>

(***************************************************************************)
(* The specifications.                                                     *)
(***************************************************************************)
CleanNext ==
    \/ Clean /\ UNCHANGED <<dateVars, listingVars, fetchVars, driverVars>>
    \/ CleanAgain /\ UNCHANGED <<dateVars, listingVars, fetchVars, driverVars>>

CleanInitAll ==
    CleanInit /\ DatesIdle /\ ListingIdle /\ FetchIdle /\ DriverIdle

SpecClean == CleanInitAll /\ [][CleanNext]_vars

DatesNext == Generate /\ UNCHANGED <<cleanVars, listingVars, fetchVars, driverVars>>

DatesInitAll ==
    DatesInit /\ CleanIdle /\ ListingIdle /\ FetchIdle /\ DriverIdle

SpecDates == DatesInitAll /\ [][DatesNext]_vars

ListingNext == Extract /\ UNCHANGED <<cleanVars, dateVars, fetchVars, driverVars>>

ListingInitAll ==
    ListingInit /\ CleanIdle /\ DatesIdle /\ FetchIdle /\ DriverIdle

SpecListing == ListingInitAll /\ [][ListingNext]_vars

FetchNext == Fetch /\ UNCHANGED <<cleanVars, dateVars, listingVars, driverVars>>

FetchInitAll ==
    FetchInit /\ CleanIdle /\ DatesIdle /\ ListingIdle /\ DriverIdle

SpecFetch == FetchInitAll /\ [][FetchNext]_vars

DriverNext ==
    \/ FetchListing /\ UNCHANGED <<cleanVars, dateVars, listingVars, fetchVars>>
    \/ FetchArticle /\ UNCHANGED <<cleanVars, dateVars, listingVars, fetchVars>>
    \/ ArticleSleep /\ UNCHANGED <<cleanVars, dateVars, listingVars, fetchVars>>
    \/ DateSleep /\ UNCHANGED <<cleanVars, dateVars, listingVars, fetchVars>>
    \/ Export /\ UNCHANGED <<cleanVars, dateVars, listingVars, fetchVars>>
    \/ ReportNothing /\ UNCHANGED <<cleanVars, dateVars, listingVars, fetchVars>>

DriverInitAll ==
    DriverInit /\ CleanIdle /\ DatesIdle /\ ListingIdle /\ FetchIdle

SpecDriver == DriverInitAll /\ [][DriverNext]_vars

\* the steps of the two loops
LoopStep ==
    (FetchListing \/ FetchArticle \/ ArticleSleep \/ DateSleep)
        /\ UNCHANGED <<cleanVars, dateVars, listingVars, fetchVars>>

\* the step of the terminal stage, Export or ReportNothing, by its effect on
\* pc: one of the two is enabled whenever pc = "terminal"
TerminalStep == pc = "terminal" /\ pc' = "done"

\* The script is sequential and every call of it returns or raises, so a
\* statement that can run does run.
SpecDriverFair ==
    /\ DriverInitAll
    /\ [][DriverNext]_vars
    /\ WF_vars(LoopStep)
    /\ WF_pc(TerminalStep)

(***************************************************************************)
(* The claims.                                                             *)
(***************************************************************************)

\* t contains pattern, letter case ignored
ContainsIgnoringCase(t, pattern) ==
    \E k \in 0..(Len(t) - Len(pattern)) :
        \A n \in 1..Len(pattern) : LowerChar(t[k + n]) = LowerChar(pattern[n])

\* t without its leading and trailing whitespace
Trimmed(t) ==
    LET inked == {k \in 1..Len(t) : t[k] \notin Whitespace}
    IN  IF inked = {} THEN <<>>
        ELSE SubSeq(t, CHOOSE a \in inked : \A b \in inked : a <= b,
                       CHOOSE a \in inked : \A b \in inked : a >= b)

\* s starts with a URL scheme: a letter, then letters, digits, + - . and a colon
HasScheme(s) ==
    /\ s # <<>>
    /\ Head(s) \in LowerLetters \cup UpperLetters
    /\ LET n == RunLength(s, AsciiAlnum \cup {"+", "-", "."})
       IN  Len(s) > n /\ s[n + 1] = ":"

\* C1: clean_text is idempotent: cleaning a cleaned text changes nothing.
C1_Idempotent ==
    clean_pc = "recleaned" => recleaned = cleaned

\* C10: a cleaned text holds only lowercase ASCII letters, digits and single
\* spaces: no uppercase, no punctuation, no non-ASCII character, no other
\* whitespace and no run of spaces.
C10_CleanAlphabet ==
    clean_pc \in {"cleaned", "recleaned"} =>
        /\ \A k \in 1..Len(cleaned) : cleaned[k] \in LowerLetters \cup Digits \cup {" "}
        /\ \A k \in 1..(Len(cleaned) - 1) : ~(cleaned[k] = " " /\ cleaned[k + 1] = " ")

\* C10 witness: a text with an uppercase letter, punctuation, a non-ASCII
\* character and a tab has been cleaned to a non-empty result.
C10_Witness ==
    /\ clean_pc = "cleaned"
    /\ cleaned # <<>>
    /\ \E k \in 1..Len(text) : text[k] \in UpperLetters
    /\ \E k \in 1..Len(text) : text[k] \in {"&", ";"}
    /\ \E k \in 1..Len(text) : text[k] = "e_acute"
    /\ \E k \in 1..Len(text) : text[k] = "\t"

\* C7: for start <= end the enumerator returns (end - start).days + 1 pairs,
\* the k-th being the calendar day k - 1 days after start (so ascending,
\* without gap or duplicate, from start's day to end's day), each key eight
\* digits and each URL ending in its own key.
C7_DateRange ==
    dates_pc = "returned" =>
        /\ Len(urls) = DaysBetween(start_date, end_date) + 1
        /\ \A k \in 1..Len(urls) :
              LET key == urls[k][1]
                  day == to_datetime(key)
              IN  /\ Len(key) = 8
                  /\ \A n \in 1..8 : key[n] \in Digits
                  /\ day.m \in 1..12
                  /\ day.d \in 1..DaysInMonth(day.y, day.m)
                  /\ ToOrdinal(day) = ToOrdinal(start_date) + k - 1
                  /\ Contains(urls[k][2], key)
                  /\ From(urls[k][2], Len(urls[k][2]) - 7) = key
        /\ to_datetime(urls[1][1]) = start_date
        /\ to_datetime(urls[Len(urls)][1]) = end_date

\* C7 witness: a range over the end of February of a leap year was enumerated.
C7_Witness ==
    /\ dates_pc = "returned"
    /\ start_date = [y |-> 2024, m |-> 2, d |-> 28]
    /\ end_date = [y |-> 2024, m |-> 3, d |-> 1]
    /\ Len(urls) = 3

\* the items of the page whose anchor carries a title containing the keyword
TitledMatch(item) ==
    item.has_link /\ item.has_title /\ ContainsIgnoringCase(item.title, Keyword)

\* the items whose anchor carries both attributes and a matching title
UsableMatch(item) ==
    /\ item.has_link /\ item.has_href /\ item.has_title
    /\ ContainsIgnoringCase(item.title, Keyword)

ChainPresent(response) ==
    /\ response.ok
    /\ response.page.has_container
    /\ response.page.has_upper
    /\ response.page.has_list

\* C6: every returned url is absolute: an href that starts with a URL scheme
\* is kept unchanged, every other href is prefixed with the site origin.
C6_AbsoluteUrls ==
    l_pc = "returned" =>
        \A k \in 1..Len(l_result) :
            /\ HasScheme(l_result[k].url)
            /\ \E n \in 1..Len(l_response.page.items) :
                  LET item == l_response.page.items[n]
                  IN  /\ item.has_link /\ item.has_href
                      /\ item.title = l_result[k].title
                      /\ l_result[k].url =
                             IF HasScheme(item.href) THEN item.href
                             ELSE SiteOrigin \o item.href

\* C9 as stated: a ref is returned for an item exactly when the container
\* chain is present and the item's anchor title contains the keyword, letter
\* case ignored; in listing order, with the given date key.
C9_RefIffTitleMatches ==
    l_pc = "returned" =>
        LET expected ==
                IF ChainPresent(l_response)
                THEN SelectSeq(l_response.page.items, TitledMatch)
                ELSE <<>>
        IN  /\ Len(l_result) = Len(expected)
            /\ \A k \in 1..Len(l_result) :
                  /\ l_result[k].title = expected[k].title
                  /\ l_result[k].date = ListingDate

\* C9 amended: a ref is returned for an item exactly when the container chain
\* is present and the item's first anchor has an href and a title containing
\* the keyword, letter case ignored; in listing order, with the given date
\* key; nothing is raised, and a missing container gives the empty sequence.
C9_RefIffUsableAndMatches ==
    /\ l_pc # "raised"
    /\ l_pc = "returned" =>
          LET expected ==
                  IF ChainPresent(l_response)
                  THEN SelectSeq(l_response.page.items, UsableMatch)
                  ELSE <<>>
          IN  /\ Len(l_result) = Len(expected)
              /\ \A k \in 1..Len(l_result) :
                    /\ l_result[k].title = expected[k].title
                    /\ l_result[k].date = ListingDate

\* C9 witness: a page with the whole chain, an anchor titled with the keyword
\* in upper case, which is returned, and a matching anchor without href,
\* which is not.
C9_Witness ==
    /\ l_pc = "returned"
    /\ ChainPresent(l_response)
    /\ Len(l_result) = 1
    /\ l_result[1].title = TitleUpperCocoa
    /\ \E n \in 1..Len(l_response.page.items) :
          LET item == l_response.page.items[n]
          IN  item.has_link /\ ~item.has_href /\ TitledMatch(item)

\* the text the fetcher is to store for a response
ExpectedContent(response) ==
    IF ~response.ok THEN ErrorPrefix \o response.error
    ELSE IF response.has_primary THEN Trimmed(response.primary)
    ELSE IF response.has_area /\ Len(response.paragraphs) >= 1
    THEN LET n == Len(response.paragraphs)
             part(k) == Trimmed(response.paragraphs[k])
             size == [k \in 1..n |-> Len(part(k))]
             total[k \in 0..n] == IF k = 0 THEN 0 ELSE total[k - 1] + size[k] + 1
         IN  [q \in 1..(total[n] - 1) |->
                 LET k == CHOOSE m \in 1..n : total[m - 1] < q /\ q <= total[m]
                 IN  IF q = total[k] THEN " " ELSE part(k)[q - total[k - 1]]]
    ELSE ContentNotFound

\* C4: the fetcher never raises, assigns content exactly once, to the primary
\* element's text, else to the content-area paragraphs' trimmed texts joined
\* by single spaces, else to "Content not found", or to "Error: <message>"
\* when the request raises; it returns the reference it was given and leaves
\* date, title and url, and every other object, as they were.
C4_ContentSetOnce ==
    f_pc \in {"returned", "raised"} =>
        /\ f_pc = "returned"
        /\ Len(f_writes) = 1
        /\ f_ret = f_arg
        /\ heap[f_arg].content = ExpectedContent(f_response)
        /\ heap[f_arg].date = InitialHeap[f_arg].date
        /\ heap[f_arg].title = InitialHeap[f_arg].title
        /\ heap[f_arg].url = InitialHeap[f_arg].url
        /\ \A o \in DOMAIN heap : o # f_arg => heap[o] = InitialHeap[o]

\* C4 witness: the fallback path has joined two trimmed paragraphs.
C4_Witness ==
    /\ f_pc = "returned"
    /\ ~f_response.has_primary
    /\ f_response.has_area
    /\ f_response.paragraphs = <<TextPadded, TextNewline>>
    /\ heap[f_arg].content = <<"U","p"," ","o","k">>

\* C2 as stated: no request directly follows another request.
C2_SleepBetweenRequests ==
    ~(prev_op \in Requests /\ last_op \in Requests)

\* C2 amended: a request directly follows another request only when it is the
\* first article GET of a date, following that date's listing GET; every
\* listing GET but the first directly follows a sleep, and every article GET
\* is directly followed by a sleep.
C2_SleepExceptFirstArticle ==
    /\ (prev_op \in Requests /\ last_op \in Requests) =>
          /\ prev_op = "listing_get"
          /\ last_op = "article_get"
          /\ j = 1
    /\ last_op = "listing_get" => prev_op \in {"none", "sleep"}
    /\ prev_op = "article_get" => last_op = "sleep"

\* C2 witness: the second article of a date has been requested, after a sleep.
C2_Witness ==
    /\ pc = "article_sleep"
    /\ j = 2
    /\ prev_op = "sleep"
    /\ last_op = "article_get"

\* what the run has done so far is in order
RunInOrder ==
    /\ pc # "aborted"
    /\ Len(listing_log) <= Len(date_urls)
    /\ \A k \in 1..Len(listing_log) :
          /\ listing_log[k].date = date_urls[k][1]
          /\ \A n \in 1..(k - 1) :
                DateLT(to_datetime(listing_log[n].date),
                       to_datetime(listing_log[k].date))
          /\ listing_log[k].failed =>
                /\ listing_log[k].articles = <<>>
                /\ \A n \in 1..Len(all_cocoa_articles) :
                      all_cocoa_articles[n].date # listing_log[k].date
    /\ pc \in {"terminal", "done"} => Len(listing_log) = Len(date_urls)
    /\ pc = "done" => (saved \/ reported_nothing)

\* C3: whatever fails, the driver never aborts; it requests each date's
\* listing exactly once, in ascending date order; a date whose listing
\* request fails contributes no article and is not retried; and the run
\* reaches its terminal stage.
C3_NeverAborts ==
    /\ []RunInOrder
    /\ <>(pc = "done")

\* C3 witness: a run ended after a failed listing request and a failed
\* article request.
C3_Witness ==
    /\ pc = "done"
    /\ Len(listing_log) = Len(date_urls)
    /\ \E k \in 1..Len(listing_log) : listing_log[k].failed
    /\ \E n \in 1..Len(all_cocoa_articles) :
          StartsWith(all_cocoa_articles[n].content, ErrorPrefix)

\* the positions of the accumulated records whose cleaned content is not empty
Retained ==
    {k \in 1..Len(all_cocoa_articles) :
        clean_text(all_cocoa_articles[k].content) # <<>>}

\* the n-th of them
NthRetained(n) ==
    CHOOSE k \in Retained : Cardinality({r \in Retained : r <= k}) = n

\* the refs the listings returned, in the order of the requests
RECURSIVE Discovered(_)
Discovered(log) ==
    IF log = <<>> THEN <<>>
    ELSE Discovered(SubSeq(log, 1, Len(log) - 1)) \o log[Len(log)].articles

IsSentinel(content) ==
    content = ContentNotFound \/ StartsWith(content, ErrorPrefix)

\* the scenario of the specification: three days, one matching article with
\* extractable content on the first, none on the second, a failed listing
\* request on the third
Scenario ==
    /\ Len(listing_log) = 3
    /\ ~listing_log[1].failed /\ Len(listing_log[1].articles) = 1
    /\ ~listing_log[2].failed /\ listing_log[2].articles = <<>>
    /\ listing_log[3].failed
    /\ Len(all_cocoa_articles) = 1
    /\ all_cocoa_articles[1].content = Trimmed(TextCocoaRose)

\* C5: the exported rows are exactly the accumulated records whose cleaned
\* content is not empty, sentinel records included, one row each, in
\* insertion order: ascending by date and, within a date, in the order the
\* listing gave; in the three-day scenario the export has one data row.
C5_ExportedRows ==
    (pc = "done" /\ saved) =>
        /\ Len(csv) = Cardinality(Retained)
        /\ \A n \in 1..Len(csv) :
              LET record == all_cocoa_articles[NthRetained(n)]
              IN  /\ strftime(csv[n].date) = record.date
                  /\ csv[n].sentiment_score =
                         polarity_compound(clean_text(record.content))
        /\ \A a, b \in 1..Len(csv) : a < b => DateLE(csv[a].date, csv[b].date)
        /\ [k \in 1..Len(all_cocoa_articles) |->
               [date |-> all_cocoa_articles[k].date,
                title |-> all_cocoa_articles[k].title,
                url |-> all_cocoa_articles[k].url]] = Discovered(listing_log)
        /\ \A k \in 1..Len(all_cocoa_articles) :
              IsSentinel(all_cocoa_articles[k].content) => k \in Retained
        /\ Scenario => (Len(csv) = 1 /\ csv[1].date = DriverStart)

\* C5 witness: an export that dropped a record with empty cleaned content and
\* kept a not-found record and an error record, from two articles of one date.
C5_Witness ==
    /\ pc = "done" /\ saved
    /\ Len(csv) < Len(all_cocoa_articles)
    /\ \E k \in Retained : all_cocoa_articles[k].content = ContentNotFound
    /\ \E k \in Retained : StartsWith(all_cocoa_articles[k].content, ErrorPrefix)
    /\ \E k \in 1..Len(listing_log) : Len(listing_log[k].articles) = 2

\* the three-day scenario has run to its export
C5_ScenarioReached ==
    pc = "done" /\ saved /\ Scenario /\ Len(csv) = 1

\* C8: the export is performed exactly when the accumulator is not empty, that
\* is when some listing returned a matching article; otherwise nothing is
\* written and the nothing-found report is made; a finished run has done
\* exactly one of the two, an unfinished run neither.
C8_ExportIffAccumulated ==
    /\ pc = "done" =>
          /\ saved <=> all_cocoa_articles # <<>>
          /\ reported_nothing <=> all_cocoa_articles = <<>>
          /\ saved # reported_nothing
          /\ all_cocoa_articles # <<>> <=>
                \E k \in 1..Len(listing_log) : listing_log[k].articles # <<>>
    /\ pc # "done" => (~saved /\ ~reported_nothing)
    /\ ~saved => csv = <<>>

\* C8 witness: a run whose listings loaded but matched nothing ended with the
\* nothing-found report and no file.
C8_Witness ==
    /\ pc = "done"
    /\ reported_nothing /\ ~saved
    /\ \E k \in 1..Len(listing_log) : ~listing_log[k].failed

====
